---- MODULE Spec2Model ----
(***************************************************************************)
(* Model of the ElevenLabs -> OpenAI chat-completions proxy (src/main.py): *)
(* the request handler chat_completions (guard, sanitize, streaming        *)
(* response) and the async generator stream_openai (429 retry/backoff,     *)
(* error mapping, byte relay).  One behaviour is one inbound request.      *)
(*                                                                         *)
(* Conventions                                                             *)
(*  - Byte strings and texts are sequences of symbols.  The literal        *)
(*    "try again in " of the regular expression is one symbol: "T" is the  *)
(*    lower-case spelling, "U" any other letter case.  "xFF" is a byte     *)
(*    that is not valid UTF-8, "x" any other character.                    *)
(*  - Durations are fixed-point integers in units of 1/Scale seconds.      *)
(*  - JSON values of the payload are written as strings ("true", "16").    *)
(***************************************************************************)
EXTENDS Integers, Sequences, FiniteSets, TLC

\* ------------------------------------------------------------------ bounds
\* longest digits-and-dots run of a 429 body
MaxTokLen == 3
\* most chunks one backend stream delivers
MaxChunks == 3

\* ---------------------------------------------------------------- helpers
RECURSIVE Pow10(_)
Pow10(n) == IF n = 0 THEN 1 ELSE 10 * Pow10(n - 1)

RECURSIVE SeqsUpTo(_, _)
SeqsUpTo(S, n) ==
    IF n = 0 THEN {<<>>}
    ELSE LET shorter == SeqsUpTo(S, n - 1)
         IN  shorter \cup {Append(s, x) : s \in shorter, x \in S}

RECURSIVE Flatten(_)
Flatten(chunks) ==
    IF chunks = <<>> THEN <<>> ELSE Head(chunks) \o Flatten(Tail(chunks))

IsPrefix(s, t) == Len(s) <= Len(t) /\ SubSeq(t, 1, Len(s)) = s

MinOf(a, b) == IF a <= b THEN a ELSE b

\* one second, in the model's fixed-point unit
Scale == Pow10(MaxTokLen)

\* ------------------------------------------------------------ configuration
ApiKeys == {"", "sk-key"}
Secrets == {"", "s3cret"}
\* the X-Proxy-Secret header: absent (None) or a value
Headers ==
    {[present |-> FALSE, value |-> ""]}
        \cup {[present |-> TRUE, value |-> v] : v \in {"", "s3cret", "wrong"}}

\* ----------------------------------------------------------------- guard
GuardRejects_anySecret(secret, header) ==
    ~(header.present /\ header.value = secret)

\* main.py:23  PROXY_SHARED_SECRET and x_proxy_secret != PROXY_SHARED_SECRET
GuardRejects(secret, header) ==
    secret # "" /\ ~(header.present /\ header.value = secret)

\* --------------------------------------------------------------- sanitize
Pop_noop(p, k) == p

\* payload.pop(k, None)
Pop(p, k) == [x \in DOMAIN p \ {k} |-> p[x]]

Put_setdefault(p, k, v) ==
    [x \in DOMAIN p \cup {k} |-> IF x \in DOMAIN p THEN p[x] ELSE v]

\* payload[k] = v
Put(p, k, v) == [x \in DOMAIN p \cup {k} |-> IF x = k THEN v ELSE p[x]]

RenameTokens_always(p) == "max_output_tokens" \in DOMAIN p

\* main.py:40  "max_output_tokens" in payload and "max_tokens" not in payload
RenameTokens(p) ==
    "max_output_tokens" \in DOMAIN p /\ "max_tokens" \notin DOMAIN p

\* sanitize with lines 47-48 in force
sanitize_strict(p) ==
    LET p1 == Pop(p, "elevenlabs_extra_body")
        p2 == Pop(p1, "user_id")
        p3 == Pop(p2, "reasoning_effort")
        p4 == IF RenameTokens(p3)
              THEN Put(Pop(p3, "max_output_tokens"), "max_tokens",
                       p3["max_output_tokens"])
              ELSE Pop(p3, "max_output_tokens")
        p5 == Pop(Pop(p4, "temperature"), "top_p")
    IN  Put(p5, "stream", "true")

\* main.py:27-52
sanitize(p) ==
    LET p1 == Pop(p, "elevenlabs_extra_body")
        p2 == Pop(p1, "user_id")
        p3 == Pop(p2, "reasoning_effort")
        p4 == IF RenameTokens(p3)
              THEN Put(Pop(p3, "max_output_tokens"), "max_tokens",
                       p3["max_output_tokens"])
              ELSE Pop(p3, "max_output_tokens")
    IN  Put(p4, "stream", "true")

\* keys a request body may carry besides "messages", with the values tried
OptionalKeys ==
    {"elevenlabs_extra_body", "user_id", "reasoning_effort",
     "max_output_tokens", "max_tokens", "stream", "temperature", "top_p",
     "model"}

ValuesOf(k) ==
    CASE k = "stream" -> {"true", "false"}
      [] k = "max_output_tokens" -> {"16"}
      [] k = "max_tokens" -> {"32"}
      [] k = "temperature" -> {"0.7"}
      [] k = "top_p" -> {"0.9"}
      [] OTHER -> {"v"}

RECURSIVE PayloadsOver(_)
PayloadsOver(keys) ==
    IF keys = {} THEN {[messages |-> "[]"]}
    ELSE LET k    == CHOOSE x \in keys : TRUE
             rest == PayloadsOver(keys \ {k})
         IN  rest \cup {Put(p, k, v) : p \in rest, v \in ValuesOf(k)}

\* every request body over the optional keys
AllPayloads == PayloadsOver(OptionalKeys)

\* request bodies of the modelled requests
RequestPayloads ==
    { [model |-> "gpt", stream |-> "false", user_id |-> "u1",
       max_output_tokens |-> "16"],
      [model |-> "gpt", max_tokens |-> "32", max_output_tokens |-> "16",
       elevenlabs_extra_body |-> "{}", temperature |-> "0.7"] }

\* ------------------------------------------------- 429 body: wait-time hint
InvalidByte == "xFF"

\* body.decode("utf-8", errors="ignore"): undecodable bytes are dropped
Decode(bytes) == SelectSeq(bytes, LAMBDA b : b # InvalidByte)

DigitVal ==
    [c \in {"0", "1", "2", "3", "4", "5", "6", "7", "8", "9"} |->
        CASE c = "0" -> 0 [] c = "1" -> 1 [] c = "2" -> 2 [] c = "3" -> 3
          [] c = "4" -> 4 [] c = "5" -> 5 [] c = "6" -> 6 [] c = "7" -> 7
          [] c = "8" -> 8 [] c = "9" -> 9]

\* the character class [0-9.]
NumChars == DOMAIN DigitVal \cup {"."}

\* the literal "try again in " under re.IGNORECASE
PhraseSyms == {"T", "U"}

\* the literal "s" under re.IGNORECASE
UnitSyms == {"s", "S"}

\* last index of the greedy [0-9.]+ run that starts at j (j - 1 when empty)
RECURSIVE RunEnd(_, _)
RunEnd(text, j) ==
    IF j <= Len(text) /\ text[j] \in NumChars THEN RunEnd(text, j + 1) ELSE j - 1

\* the pattern r"try again in ([0-9.]+)s" matches at position i
MatchesAt(text, i) ==
    /\ text[i] \in PhraseSyms
    /\ RunEnd(text, i + 1) >= i + 1
    /\ RunEnd(text, i + 1) + 1 <= Len(text)
    /\ text[RunEnd(text, i + 1) + 1] \in UnitSyms

\* re.search: the leftmost position where the pattern matches (0: no match)
SearchPos(text) ==
    LET hits == {i \in 1..Len(text) : MatchesAt(text, i)}
    IN  IF hits = {} THEN 0 ELSE CHOOSE i \in hits : \A j \in hits : i <= j

\* m.group(1)
Group1(text) ==
    LET i == SearchPos(text) IN SubSeq(text, i + 1, RunEnd(text, i + 1))

DotCount(tok) == Cardinality({i \in 1..Len(tok) : tok[i] = "."})

\* float(tok) succeeds on a digits-and-dots string: at most one dot and at
\* least one digit; otherwise it raises ValueError
FloatOk(tok) == DotCount(tok) <= 1 /\ Len(tok) - DotCount(tok) >= 1

RECURSIVE DigitsVal(_)
DigitsVal(ds) ==
    IF ds = <<>> THEN 0
    ELSE 10 * DigitsVal(SubSeq(ds, 1, Len(ds) - 1)) + DigitVal[ds[Len(ds)]]

\* float(tok), in units of 1/Scale
FloatVal(tok) ==
    LET dots == {i \in 1..Len(tok) : tok[i] = "."}
        d    == IF dots = {} THEN Len(tok) + 1 ELSE CHOOSE i \in dots : TRUE
        ip   == SubSeq(tok, 1, d - 1)
        fp   == SubSeq(tok, d + 1, Len(tok))
    IN  DigitsVal(ip) * Scale + DigitsVal(fp) * Pow10(MaxTokLen - Len(fp))

\* 2.5
DefaultWait == (25 * Scale) \div 10

\* 0.3
Buffer == (3 * Scale) \div 10

\* 6.0
Cap == 6 * Scale

\* main.py:80-81  does  float(m.group(1)) if m else 2.5  raise ValueError?
HintRaises(text) == SearchPos(text) # 0 /\ ~FloatOk(Group1(text))

\* main.py:80-81  wait_s = float(m.group(1)) if m else 2.5
WaitHint(text) ==
    IF SearchPos(text) # 0 THEN FloatVal(Group1(text)) ELSE DefaultWait

Backoff_nocap(w) == w + Buffer

\* main.py:84  min(wait_s + 0.3, 6.0)
Backoff(w) == MinOf(w + Buffer, Cap)

\* ------------------------------------------------- response classification
IsRateLimit_non200(s) == s # 200

\* main.py:75  r.status_code == 429
IsRateLimit(s) == s = 429

\* main.py:87  r.status_code != 200
IsBackendError(s) == s # 200

NonEmpty(chunks) == SelectSeq(chunks, LAMBDA c : c # <<>>)

Yield_twice(out, c) == IF c # <<>> THEN out \o <<c, c>> ELSE out

Yield_front(out, c) == IF c # <<>> THEN <<c>> \o out ELSE out

\* main.py:96-97  if chunk: yield chunk
Yield(out, c) == IF c # <<>> THEN Append(out, c) ELSE out

\* ------------------------------------------------------------ the backend
\* statuses the backend answers with
Statuses == {200, 429, 403, 500}

\* [0-9.]+ candidates, with undecodable bytes mixed in
TokChars == {"5", "7", ".", InvalidByte}

Tokens == SeqsUpTo(TokChars, MaxTokLen)

\* bodies of 429 answers: a phrase candidate (lead, number, unit), possibly
\* followed by a second, well-formed phrase "try again in 1s"
Bodies429 ==
    { <<lead>> \o tok \o <<unit>> \o post :
        lead \in {"T", "U", "x"}, tok \in Tokens, unit \in {"s", "S", "x"},
        post \in {<<>>, <<"T", "1", "s">>} }

\* bodies of other error answers
ErrBodies == {<<>>, <<"f">>, <<"f", InvalidByte, "g">>}

\* chunks r.aiter_bytes() may deliver (the empty chunk included)
Chunks == {<<>>, <<"a">>, <<"b">>, <<"a", "b">>}

\* ------------------------------------------------------------------ state
VARIABLES
    OPENAI_API_KEY,       \* configuration, read once at import
    PROXY_SHARED_SECRET,  \* configuration, read once at import
    x_proxy_secret,       \* the caller's X-Proxy-Secret header
    request,              \* the request body as received (never changed)
    payload,              \* the request body, mutated in place by sanitize
    sent,                 \* json= bodies of the client.stream calls, in order
    pc,                   \* position of the request
    respStatus,           \* HTTP status line sent to the caller (0: none yet)
    raised,               \* the exception the request ended with
    attempt,              \* loop variable of  for attempt in range(3)
    calls,                \* backend exchanges started (client.stream calls)
    open,                 \* backend exchanges currently open
    status,               \* r.status_code of the current exchange (0: none)
    body,                 \* body read by r.aread() in the current iteration
    slept,                \* duration passed to asyncio.sleep in this iteration
    nWaits,               \* backoff sleeps completed
    n429,                 \* 429 answers received
    received,             \* chunks delivered by r.aiter_bytes() so far
    chunk,                \* the chunk in hand between delivery and yield
    relayed               \* chunks yielded to the caller so far

vars ==
    << OPENAI_API_KEY, PROXY_SHARED_SECRET, x_proxy_secret, request, payload,
       sent, pc, respStatus, raised, attempt, calls, open, status, body, slept, nWaits,
       n429, received, chunk, relayed >>

config == << OPENAI_API_KEY, PROXY_SHARED_SECRET, x_proxy_secret, request >>

retryVars == << attempt, calls, open, status, body, slept, nWaits, n429, sent >>

streamVars == << received, chunk, relayed >>

Exc(code, kind, st, text) ==
    [status_code |-> code, kind |-> kind, status |-> st, text |-> text]

NoExc == Exc(0, "none", 0, <<>>)

MaxAttempts_four == 3 + 1

\* main.py:72  range(3)
MaxAttempts == 3

Terminal == {"rejected", "failed", "error", "cancelled", "done"}

Init ==
    /\ OPENAI_API_KEY \in ApiKeys
    /\ PROXY_SHARED_SECRET \in Secrets
    /\ x_proxy_secret \in Headers
    /\ request \in RequestPayloads
    /\ payload = request
    /\ sent = <<>>
    /\ pc = "guard"
    /\ respStatus = 0
    /\ raised = NoExc
    /\ attempt = 0
    /\ calls = 0
    /\ open = 0
    /\ status = 0
    /\ body = <<>>
    /\ slept = 0
    /\ nWaits = 0
    /\ n429 = 0
    /\ received = <<>>
    /\ chunk = <<>>
    /\ relayed = <<>>

\* ------------------------------------------------------- chat_completions
\* main.py:108  guard(x_proxy_secret)
Guard ==
    /\ pc = "guard"
    /\ IF GuardRejects(PROXY_SHARED_SECRET, x_proxy_secret)
       THEN /\ pc' = "rejected"
            /\ raised' = Exc(401, "Unauthorized", 0, <<>>)
            /\ respStatus' = 401
       ELSE /\ pc' = "sanitize"
            /\ UNCHANGED << raised, respStatus >>
    /\ UNCHANGED << config, payload, retryVars, streamVars >>

\* main.py:109  payload = sanitize(await request.json())
Sanitize ==
    /\ pc = "sanitize"
    /\ payload' = sanitize(payload)
    /\ pc' = "respond"
    /\ UNCHANGED << config, respStatus, raised, retryVars, streamVars >>

\* main.py:110  return StreamingResponse(stream_openai(payload), ...): calling
\* the async generator function runs none of its body; the response starts
\* with the default status 200 and then iterates the generator
Respond ==
    /\ pc = "respond"
    /\ respStatus' = 200
    /\ pc' = "key"
    /\ UNCHANGED << config, payload, raised, retryVars, streamVars >>

\* ---------------------------------------------------------- stream_openai
\* main.py:60-61
CheckKey ==
    /\ pc = "key"
    /\ IF OPENAI_API_KEY = ""
       THEN /\ pc' = "failed"
            /\ raised' = Exc(500, "OPENAI_API_KEY not set", 0, <<>>)
       ELSE /\ pc' = "attempt"
            /\ UNCHANGED raised
    /\ UNCHANGED << config, payload, respStatus, retryVars, streamVars >>

\* main.py:72-74  one more iteration of the loop: open an exchange and get
\* its status line, or fail to connect
OpenExchange ==
    /\ pc = "attempt"
    /\ attempt < MaxAttempts
    /\ calls' = calls + 1
    /\ sent' = Append(sent, payload)
    /\ \/ \E s \in Statuses :
            /\ status' = s
            /\ open' = open + 1
            /\ n429' = IF s = 429 THEN n429 + 1 ELSE n429
            /\ pc' = IF IsRateLimit(s) \/ IsBackendError(s)
                     THEN "status" ELSE "streaming"
            /\ UNCHANGED raised
       \/ /\ pc' = "error"
          /\ raised' = Exc(0, "TransportError", 0, <<>>)
          /\ UNCHANGED << status, open, n429 >>
    /\ UNCHANGED << config, payload, respStatus, attempt, body, slept, nWaits,
                    streamVars >>

\* main.py:75-84  status 429: read the body, extract the hint and start the
\* backoff sleep, inside the exchange's scope; float() may raise ValueError
\* and r.aread() may fail, both leave the scopes
RateLimited ==
    /\ pc = "status"
    /\ IsRateLimit(status)
    /\ \/ \E b \in Bodies429 :
            /\ body' = b
            /\ IF HintRaises(Decode(b))
               THEN /\ pc' = "error"
                    /\ raised' = Exc(0, "ValueError", 0, <<>>)
                    /\ open' = 0
                    /\ UNCHANGED slept
               ELSE /\ pc' = "wait"
                    /\ slept' = Backoff(WaitHint(Decode(b)))
                    /\ UNCHANGED << raised, open >>
       \/ /\ pc' = "error"
          /\ raised' = Exc(0, "TransportError", 0, <<>>)
          /\ open' = 0
          /\ UNCHANGED << body, slept >>
    /\ UNCHANGED << config, payload, respStatus, attempt, calls, status,
                    nWaits, n429, streamVars, sent >>

Continue_keepOpen ==
    /\ pc = "wait"
    /\ nWaits' = nWaits + 1
    /\ attempt' = attempt + 1
    /\ status' = 0
    /\ body' = <<>>
    /\ slept' = 0
    /\ pc' = "attempt"
    /\ UNCHANGED << config, payload, respStatus, raised, calls, open, n429,
                    streamVars, sent >>

Continue_spin ==
    /\ pc = "wait"
    /\ pc' = "status"
    /\ UNCHANGED << config, payload, respStatus, raised, retryVars, streamVars >>

Continue_noLastWait ==
    /\ pc = "wait"
    /\ nWaits' = IF attempt + 1 < 3 THEN nWaits + 1 ELSE nWaits
    /\ open' = 0
    /\ attempt' = attempt + 1
    /\ status' = 0
    /\ body' = <<>>
    /\ slept' = 0
    /\ pc' = "attempt"
    /\ UNCHANGED << config, payload, respStatus, raised, calls, n429,
                    streamVars, sent >>

\* main.py:84-85  the sleep is over; continue leaves both scopes (the
\* exchange is closed) and advances the loop.  body and slept are dead from
\* here on: the next iteration assigns them before reading them
Continue ==
    /\ pc = "wait"
    /\ nWaits' = nWaits + 1
    /\ open' = 0
    /\ attempt' = attempt + 1
    /\ status' = 0
    /\ body' = <<>>
    /\ slept' = 0
    /\ pc' = "attempt"
    /\ UNCHANGED << config, payload, respStatus, raised, calls, n429,
                    streamVars, sent >>

\* main.py:100-103  the loop ran out of attempts
RaiseRateLimited ==
    /\ pc = "attempt"
    /\ attempt >= MaxAttempts
    /\ pc' = "failed"
    /\ raised' = Exc(502, "rate-limited repeatedly", 0, <<>>)
    /\ UNCHANGED << config, payload, respStatus, retryVars, streamVars >>

\* main.py:87-92  any other status but 200: read the body and raise 502
\* (r.aread() may fail instead)
BackendError ==
    /\ pc = "status"
    /\ ~IsRateLimit(status)
    /\ IsBackendError(status)
    /\ open' = 0
    /\ \/ \E b \in ErrBodies :
            /\ body' = b
            /\ raised' = Exc(502, "OpenAI error", status, Decode(b))
            /\ pc' = "failed"
       \/ /\ raised' = Exc(0, "TransportError", 0, <<>>)
          /\ pc' = "error"
          /\ UNCHANGED body
    /\ UNCHANGED << config, payload, respStatus, attempt, calls, status, slept,
                    nWaits, n429, streamVars, sent >>

\* main.py:95  r.aiter_bytes() delivers the next chunk
NextChunk ==
    /\ pc = "streaming"
    /\ Len(received) < MaxChunks
    /\ \E c \in Chunks :
          /\ chunk' = c
          /\ received' = Append(received, c)
    /\ pc' = "relay"
    /\ UNCHANGED << config, payload, respStatus, raised, retryVars, relayed >>

\* main.py:96-97  if chunk: yield chunk
Relay ==
    /\ pc = "relay"
    /\ relayed' = Yield(relayed, chunk)
    /\ chunk' = <<>>
    /\ pc' = "streaming"
    /\ UNCHANGED << config, payload, respStatus, raised, retryVars, received >>

\* main.py:95,98  the backend closed the stream cleanly: return
StreamEnd ==
    /\ pc = "streaming"
    /\ open' = 0
    /\ pc' = "done"
    /\ UNCHANGED << config, payload, respStatus, raised, attempt, calls,
                    status, body, slept, nWaits, n429, streamVars, sent >>

StreamFail_retry ==
    /\ pc = "streaming"
    /\ open' = 0
    /\ attempt' = attempt + 1
    /\ pc' = "attempt"
    /\ UNCHANGED << config, payload, respStatus, raised, calls, status, body,
                    slept, nWaits, n429, streamVars, sent >>

\* main.py:95  transport failure or premature close while streaming: the
\* exception leaves the generator through both scopes
StreamFail ==
    /\ pc = "streaming"
    /\ open' = 0
    /\ pc' = "error"
    /\ raised' = Exc(0, "TransportError", 0, <<>>)
    /\ UNCHANGED << config, payload, respStatus, attempt, calls, status, body,
                    slept, nWaits, n429, streamVars, sent >>

Cancel_leak ==
    /\ pc \in {"status", "wait", "streaming"}
    /\ pc' = "cancelled"
    /\ raised' = Exc(0, "CancelledError", 0, <<>>)
    /\ UNCHANGED << config, payload, respStatus, attempt, calls, open, status,
                    body, slept, nWaits, n429, streamVars, sent >>

\* the caller disconnects while the generator is suspended (aread, sleep,
\* next chunk, yield): it is cancelled and the scopes are left
Cancel ==
    /\ pc \in {"status", "wait", "streaming"}
    /\ open' = 0
    /\ pc' = "cancelled"
    /\ raised' = Exc(0, "CancelledError", 0, <<>>)
    /\ UNCHANGED << config, payload, respStatus, attempt, calls, status, body,
                    slept, nWaits, n429, streamVars, sent >>

Next ==
    \/ Guard
    \/ Sanitize
    \/ Respond
    \/ CheckKey
    \/ OpenExchange
    \/ RateLimited
    \/ Continue
    \/ RaiseRateLimited
    \/ BackendError
    \/ NextChunk
    \/ Relay
    \/ StreamEnd
    \/ StreamFail
    \/ Cancel

Spec == Init /\ [][Next]_vars

TypeOK ==
    /\ pc \in {"guard", "sanitize", "respond", "key", "attempt", "status",
               "wait", "streaming", "relay"} \cup Terminal
    /\ attempt \in 0..MaxAttempts
    /\ calls \in 0..MaxAttempts
    /\ open \in 0..1

\* the event loop resumes the request whenever it can take a step; sleeps
\* are bounded and a backend stream delivers at most MaxChunks chunks
FairSpec == Spec /\ WF_vars(Next)

\* ------------------------------------------- requests over every payload
\* the 429 bodies tried when the payload is what varies
SanBodies == {<<>>, <<"T", "5", "s">>}

InitSan ==
    /\ OPENAI_API_KEY = "sk-key"
    /\ PROXY_SHARED_SECRET \in Secrets
    /\ x_proxy_secret \in
          {[present |-> FALSE, value |-> ""], [present |-> TRUE, value |-> "s3cret"]}
    /\ request \in AllPayloads
    /\ payload = request
    /\ sent = <<>>
    /\ pc = "guard"
    /\ respStatus = 0
    /\ raised = NoExc
    /\ attempt = 0
    /\ calls = 0
    /\ open = 0
    /\ status = 0
    /\ body = <<>>
    /\ slept = 0
    /\ nWaits = 0
    /\ n429 = 0
    /\ received = <<>>
    /\ chunk = <<>>
    /\ relayed = <<>>

RateLimitedSan == body' \in SanBodies /\ RateLimited

NextSan ==
    \/ Guard
    \/ Sanitize
    \/ Respond
    \/ CheckKey
    \/ OpenExchange
    \/ RateLimitedSan
    \/ Continue
    \/ RaiseRateLimited

SpecSan == InitSan /\ [][NextSan]_vars

\* ================================================================ claims

\* C1: once a byte of the 200 stream has been relayed, no further backend
\* attempt is started; a failure while streaming ends the request with
\* exactly the chunks relayed so far.
C1_NoRetryOnceRelayed ==
    [][relayed # <<>> =>
          /\ calls' = calls
          /\ attempt' = attempt
          /\ (raised' # raised => pc' \in Terminal /\ relayed' = relayed)]_vars

\* a stream that failed after bytes had been relayed
C1_Witness ==
    /\ pc = "error"
    /\ raised.kind = "TransportError"
    /\ status = 200
    /\ relayed = << <<"a">>, <<"b">> >>

\* C2: the number of backend attempts never exceeds 3; the "rate-limited
\* repeatedly" failure is a 502 raised after exactly 3 attempts that were all
\* answered 429, with nothing relayed; and after three 429 answers the
\* request never streams: the only failure it can report is that 502.
C2_ThreeAttemptsThen502 ==
    /\ calls <= 3
    /\ (pc = "failed" /\ raised.kind = "rate-limited repeatedly") =>
          /\ raised.status_code = 502
          /\ calls = 3
          /\ n429 = 3
          /\ relayed = <<>>
          /\ received = <<>>
    /\ n429 = 3 =>
          /\ pc \in {"status", "wait", "attempt", "failed", "error", "cancelled"}
          /\ (pc = "failed" => raised.kind = "rate-limited repeatedly")

C2_Witness ==
    /\ pc = "failed"
    /\ raised.kind = "rate-limited repeatedly"
    /\ calls = 3

\* C3: k answers 429 and then a 200: the 200 is the (k+1)-th attempt and k
\* backoff waits have completed, one after each 429 and before the next
\* attempt is opened; at the clean end of the stream the relayed chunks are
\* the chunks of the 200 stream that carry bytes, in order, each once (an
\* empty chunk carries nothing and is skipped), so the relayed bytes are the
\* stream's bytes.
C3_RetryThenRelay ==
    /\ nWaits <= n429
    /\ n429 <= nWaits + 1
    /\ calls <= nWaits + 1
    /\ status = 200 => calls = n429 + 1 /\ nWaits = n429
    /\ received # <<>> => status = 200
    /\ pc = "done" =>
          /\ status = 200
          /\ relayed = NonEmpty(received)
          /\ Flatten(relayed) = Flatten(received)

\* two 429s, then a 200 stream of two chunks (and an empty one), completed
C3_Witness ==
    /\ pc = "done"
    /\ n429 = 2
    /\ calls = 3
    /\ nWaits = 2
    /\ Len(received) = 3
    /\ relayed = << <<"a">>, <<"b">> >>

\* C4: once an attempt is answered with a status other than 200 and 429 the
\* request only reads the body and ends: no further attempt, no backoff
\* wait after it, nothing relayed; when it fails it is with a 502 whose
\* detail carries that status and the decoded body text.
C4_OtherStatusFails ==
    status \notin {0, 200, 429} =>
        /\ pc \in {"status", "failed", "error", "cancelled"}
        /\ calls = n429 + 1
        /\ nWaits = n429
        /\ relayed = <<>>
        /\ received = <<>>
        /\ pc = "failed" =>
              /\ raised.status_code = 502
              /\ raised.kind = "OpenAI error"
              /\ raised.status = status
              /\ raised.text = SelectSeq(body, LAMBDA b : b # "xFF")
              /\ open = 0

\* a 403 after two 429s
C4_Witness ==
    /\ pc = "failed"
    /\ status = 403
    /\ n429 = 2
    /\ raised.text = <<"f", "g">>

\* C5: the bytes relayed are always a prefix of the bytes received from the
\* one 200 exchange, and equal to them when the backend closed cleanly.
C5_RelayedIsPrefix ==
    /\ IsPrefix(Flatten(relayed), Flatten(received))
    /\ Len(relayed) <= Len(received)
    /\ received # <<>> => status = 200
    /\ pc = "done" => Flatten(relayed) = Flatten(received)

C5_Witness ==
    /\ pc = "done"
    /\ received = << <<"a", "b">>, <<>>, <<"b">> >>
    /\ Flatten(relayed) = <<"a", "b", "b">>

\* C6: when stream_openai fails with its 502 (other backend status, or the
\* 429 budget exhausted) the response the caller receives has status 502.
C6_FailureIs502 ==
    (pc = "failed" /\ raised.status_code = 502) => respStatus = 502

\* C7: with a secret configured and a missing or different header the
\* request is rejected with 401 before sanitize and without any backend
\* call; with no secret configured the guard rejects nothing.
C7_Guard401 ==
    /\ ( /\ PROXY_SHARED_SECRET # ""
         /\ ~(x_proxy_secret.present /\ x_proxy_secret.value = PROXY_SHARED_SECRET)
         /\ pc # "guard" ) =>
          /\ pc = "rejected"
          /\ respStatus = 401
          /\ raised.status_code = 401
          /\ calls = 0
          /\ payload \in RequestPayloads
    /\ PROXY_SHARED_SECRET = "" => pc # "rejected" /\ respStatus # 401

C7_Witness ==
    /\ pc = "rejected"
    /\ PROXY_SHARED_SECRET = "s3cret"
    /\ x_proxy_secret = [present |-> TRUE, value |-> "wrong"]
    /\ OPENAI_API_KEY # ""

\* C8: with the backend API key unset, a request that passed the guard is
\* answered with status 500 and no backend call is made.
C8_NoKeyIs500 ==
    (OPENAI_API_KEY = "" /\ pc = "failed") => respStatus = 500 /\ calls = 0

\* the wait hint as the claim defines it: the number of the first
\* "try again in <digits-and-dots>s" phrase of the text, else 2.5
C9_Hint(text) ==
    LET phr == { p \in (1..Len(text)) \X (1..Len(text)) :
                    /\ text[p[1]] \in {"T", "U"}
                    /\ p[1] < p[2]
                    /\ p[2] < Len(text)
                    /\ \A k \in (p[1] + 1)..p[2] : text[k] \in NumChars
                    /\ text[p[2] + 1] \in {"s", "S"} }
    IN  IF phr = {} THEN (25 * Scale) \div 10
        ELSE LET f == CHOOSE p \in phr : \A q \in phr : p[1] <= q[1]
             IN  FloatVal(SubSeq(text, f[1] + 1, f[2]))

\* C9: every backoff wait equals min(h + 0.3, 6.0), h the number of the
\* body's first phrase or 2.5 without one; so every wait is at most 6.0,
\* the default wait is 2.8, and e.g. ".5" gives 0.8 and "5.7" gives 6.0.
C9_WaitFormula ==
    pc = "wait" =>
        /\ slept = MinOf(C9_Hint(Decode(body)) + (3 * Scale) \div 10, 6 * Scale)
        /\ slept <= 6 * Scale
        /\ (\A i \in 1..Len(body) : body[i] \notin {"T", "U"}) =>
              slept = (28 * Scale) \div 10
        /\ body = <<"T", ".", "5", "s">> => slept = (8 * Scale) \div 10
        /\ body = <<"U", "5", ".", "7", "S">> => slept = 6 * Scale
        /\ body = <<"x", "7", "s", "T", "1", "s">> => slept = (13 * Scale) \div 10

\* a capped wait
C9_Witness ==
    /\ pc = "wait"
    /\ body = <<"U", "7", ".", "5", "S">>
    /\ slept = 6 * Scale

\* C10: extracting the hint never raises: a phrase whose digits-and-dots run
\* is not a number falls back to 2.5 and the retry goes on.
C10_NoParseError ==
    /\ raised.kind # "ValueError"
    /\ (pc = "wait" /\ HintRaises(Decode(body))) => slept = (28 * Scale) \div 10

\* C11: every exchange opened is released on every way out of its scope:
\* before the next attempt after a 429, on the 502 failure, at the clean end
\* of the stream, on a transport error and when the caller disconnects; no
\* terminal state has an exchange open.
C11_ExchangeReleased ==
    /\ pc \in Terminal => open = 0
    /\ pc = "attempt" => open = 0
    /\ open > 0 => pc \in {"status", "wait", "streaming", "relay"}

\* the caller went away in the middle of a stream
C11_Witness ==
    /\ pc = "cancelled"
    /\ status = 200
    /\ relayed # <<>>
    /\ open = 0

\* the request is past sanitize
Sanitized == pc \notin {"guard", "sanitize", "rejected"}

\* C12: the sanitized payload has none of the keys elevenlabs_extra_body,
\* user_id, reasoning_effort, max_output_tokens, whatever the input held.
C12_KeysRemoved ==
    Sanitized =>
        DOMAIN payload \cap {"elevenlabs_extra_body", "user_id",
                             "reasoning_effort", "max_output_tokens"} = {}

\* an input with all four keys, sanitized
C12_Witness ==
    /\ pc = "respond"
    /\ {"elevenlabs_extra_body", "user_id", "reasoning_effort",
        "max_output_tokens"} \subseteq DOMAIN request

\* C13: max_output_tokens without max_tokens is renamed to max_tokens with
\* its value; an input max_tokens keeps its value; max_output_tokens is never
\* in the output; with neither key in the input neither is in the output.
C13_TokenLimit ==
    Sanitized =>
        /\ "max_output_tokens" \notin DOMAIN payload
        /\ ("max_output_tokens" \in DOMAIN request /\ "max_tokens" \notin DOMAIN request)
              => /\ "max_tokens" \in DOMAIN payload
                 /\ payload["max_tokens"] = request["max_output_tokens"]
        /\ "max_tokens" \in DOMAIN request
              => /\ "max_tokens" \in DOMAIN payload
                 /\ payload["max_tokens"] = request["max_tokens"]
        /\ DOMAIN request \cap {"max_tokens", "max_output_tokens"} = {}
              => "max_tokens" \notin DOMAIN payload

\* both keys in the input: the native value survives
C13_Witness ==
    /\ pc = "respond"
    /\ {"max_tokens", "max_output_tokens"} \subseteq DOMAIN request
    /\ payload["max_tokens"] = "32"

\* C14: the sanitized payload always has stream = true, also when the input
\* had stream = false or no stream, and the body of every backend call of
\* every attempt is that payload.
C14_StreamForced ==
    /\ Sanitized => "stream" \in DOMAIN payload /\ payload["stream"] = "true"
    /\ \A i \in 1..Len(sent) :
          /\ "stream" \in DOMAIN sent[i]
          /\ sent[i]["stream"] = "true"
          /\ sent[i] = payload

\* three attempts for a request that asked for stream = false
C14_Witness ==
    /\ Len(sent) = 3
    /\ "stream" \in DOMAIN request
    /\ request["stream"] = "false"

\* C15: a key other than the six sanitize names is in the output exactly
\* when it is in the input, with the same value.
C15_OtherKeysUntouched ==
    Sanitized =>
        \A k \in (DOMAIN request \cup DOMAIN payload) \
                    {"elevenlabs_extra_body", "user_id", "reasoning_effort",
                     "max_output_tokens", "max_tokens", "stream"} :
            /\ k \in DOMAIN request
            /\ k \in DOMAIN payload
            /\ payload[k] = request[k]

C15_Witness ==
    /\ pc = "respond"
    /\ {"temperature", "top_p", "model"} \subseteq DOMAIN request
    /\ payload["temperature"] = "0.7"
    /\ payload["model"] = "v"

\* C16 as stated: the sanitized payload has none of temperature, top_p,
\* reasoning_effort.
C16_StrictVariant ==
    Sanitized =>
        DOMAIN payload \cap {"temperature", "top_p", "reasoning_effort"} = {}

\* C16 as amended: the sanitized payload never has reasoning_effort, while
\* temperature and top_p are kept as the input has them.
C16_PermissiveVariant ==
    Sanitized =>
        /\ "reasoning_effort" \notin DOMAIN payload
        /\ \A k \in {"temperature", "top_p"} :
              /\ k \in DOMAIN payload <=> k \in DOMAIN request
              /\ k \in DOMAIN request => payload[k] = request[k]

C16_Witness ==
    /\ pc = "respond"
    /\ {"temperature", "top_p", "reasoning_effort"} \subseteq DOMAIN request
    /\ payload["top_p"] = "0.9"

\* C17: at most one exchange is open at any time; during the backoff wait
\* the exchange that was answered 429 is still open, and it is closed before
\* the loop can open the next one.
C17_OneExchange ==
    /\ open \in {0, 1}
    /\ pc = "wait" => open = 1 /\ status = 429 /\ calls = n429
    /\ (pc = "attempt" /\ calls > 0) => open = 0 /\ status = 0

\* waiting after the second 429
C17_Witness ==
    /\ pc = "wait"
    /\ n429 = 2
    /\ open = 1

\* C18: every request eventually ends (done, failed with a status, or ended
\* by an exception or the caller); it never stays in the retry path.
C18_Terminates == <>(pc \in Terminal)

\* a request that ended after going through all three waits
C18_Witness ==
    /\ pc \in Terminal
    /\ nWaits = 3
    /\ calls = 3
    /\ raised.status_code = 502

\* C19: a wait is completed after every 429, the third included: outside
\* the handling of a 429 the waits done equal the 429s received, and the
\* "rate-limited repeatedly" failure comes after three waits.
C19_WaitAfterEvery429 ==
    /\ nWaits <= n429
    /\ pc \in {"attempt", "streaming", "relay", "done", "failed"} => nWaits = n429
    /\ raised.kind = "rate-limited repeatedly" => nWaits = 3 /\ n429 = 3

C19_Witness ==
    /\ raised.kind = "rate-limited repeatedly"
    /\ nWaits = 3
    /\ attempt = 3

====
